---- MODULE Spec2Model ----
(***************************************************************************)
(* A model of the `ruma_api!` procedural macro (ruma-api-macros/src/api.rs) *)
(* and of the four codec routines it generates.                            *)
(*                                                                         *)
(*  - SpecGen   : one macro invocation: Api::parse (metadata, request,     *)
(*                response, error type, GET/body rule) and expand_all.     *)
(*  - SpecCodec : calls of the generated routines of an expanded endpoint: *)
(*                try_into_http_request, TryFrom<http::Request>,           *)
(*                TryFrom<Response>, TryFrom<http::Response>.              *)
(*                                                                         *)
(* Text (URLs, header values, JSON bodies) is a sequence of one-character  *)
(* strings, so that formatting and parsing are computed, not assumed.      *)
(***************************************************************************)
EXTENDS Naturals, Sequences, FiniteSets, TLC

VARIABLES
    pc,           \* position of the macro invocation
    api,          \* the Api value under construction / handed to expand_all
    errors,       \* the combined syn::Error (a list of diagnostics), <<>> = none
    output,       \* the token stream handed back to the compiler (set of items)
    call,         \* the generated routine called last ("none" before any call)
    args,         \* the arguments of that call
    httpMsg,      \* the wire message the call produced or consumed
    result        \* what the call returned

vars == <<pc, api, errors, output, call, args, httpMsg, result>>

(***************************************************************************)
(* Bounds                                                                  *)
(***************************************************************************)
\* Most fields one endpoint definition declares (request and response together).
MaxFields == 2

(***************************************************************************)
(* The definition language                                                 *)
(***************************************************************************)
Methods == {"GET", "POST"}
AuthSchemes == {"None", "AccessToken", "ServerSignature"}
HeaderNames == {"X-A", "X-B"}
\* The order in which the path template names the request's Path fields.
PathOrders == {"declaration", "reversed"}

Field(k, h, o) == [kind |-> k, header |-> h, optional |-> o]

RequestKinds == {"Path", "Query", "QueryMap", "Header", "Body", "NewtypeBody"}
ResponseKinds == {"Header", "Body", "NewtypeBody"}

\* A field as written in the macro input; kind "Unknown" is an attribute
\* `#[ruma_api(...)]` that names no location.
FieldsOfKinds(kinds) ==
    {Field(k, "", FALSE) : k \in (kinds \ {"Header", "Body"})}
        \cup {Field("Header", h, FALSE) : h \in (IF "Header" \in kinds THEN HeaderNames ELSE {})}
        \cup {Field("Body", "", o) : o \in (IF "Body" \in kinds THEN BOOLEAN ELSE {})}

RawRequestFields == FieldsOfKinds(RequestKinds \cup {"Unknown"})
RawResponseFields == FieldsOfKinds(ResponseKinds \cup {"Unknown"})

SeqsUpTo(S, n) == UNION {[1..k -> S] : k \in 0..n}

Indices(fields, k) == {i \in 1..Len(fields) : fields[i].kind = k}

\* Request::has_body_fields / body_fields / newtype_body_field and friends.
body_fields(fields) == Indices(fields, "Body")
has_body_fields(fields) == body_fields(fields) # {}
newtype_body_field(fields) ==
    IF Indices(fields, "NewtypeBody") = {} THEN {}
    ELSE {CHOOSE i \in Indices(fields, "NewtypeBody") :
              \A j \in Indices(fields, "NewtypeBody") : i <= j}
query_map_field(fields) == Indices(fields, "QueryMap")
has_query_fields(fields) == Indices(fields, "Query") # {}

\* The checks the schema parser applies to one field list.
SchemaSyntaxOk(fields) ==
    /\ Indices(fields, "Unknown") = {}
    /\ Cardinality(Indices(fields, "NewtypeBody")) <= 1
    /\ ~(Indices(fields, "NewtypeBody") # {} /\ has_body_fields(fields))
    /\ Cardinality(Indices(fields, "QueryMap")) <= 1
    /\ ~(Indices(fields, "QueryMap") # {} /\ has_query_fields(fields))

Void == "ruma_api::error::Void"
ErrorClauses == {"", "MyError"}          \* "" : no trailing `error: TYPE` clause

\* Result<T, E> of a generated routine.
Raise(e) == [ok |-> FALSE, err |-> e, val |-> <<>>]
Return(v) == [ok |-> TRUE, err |-> "", val |-> v]

NoMetadata == [method |-> "", authentication |-> "", path |-> ""]
EmptyApi == [metadata |-> NoMetadata, request |-> <<>>, response |-> <<>>, error_ty |-> ""]

(***************************************************************************)
(* Api::parse                                                              *)
(***************************************************************************)
\* `let metadata: Metadata = input.parse()?;`
ParseMetadata ==
    /\ pc = "parse_metadata"
    /\ \/ \E m \in Methods, a \in AuthSchemes, o \in PathOrders :
            /\ api' = [api EXCEPT !.metadata = [method |-> m, authentication |-> a, path |-> o]]
            /\ pc' = "parse_request"
            /\ errors' = errors
       \/ /\ pc' = "error"
          /\ errors' = <<[msg |-> "expected metadata", field |-> 0]>>
          /\ api' = api
    /\ UNCHANGED <<output, call, args, httpMsg, result>>

\* `let request: Request = input.parse()?;`
ParseRequest ==
    /\ pc = "parse_request"
    /\ \E raw \in SeqsUpTo(RawRequestFields, MaxFields) :
         IF SchemaSyntaxOk(raw)
         THEN /\ api' = [api EXCEPT !.request = raw]
              /\ pc' = "parse_response"
              /\ errors' = errors
         ELSE /\ pc' = "error"
              /\ errors' = <<[msg |-> "invalid request field", field |-> 0]>>
              /\ api' = api
    /\ UNCHANGED <<output, call, args, httpMsg, result>>

\* `let response: Response = input.parse()?;`
ParseResponse ==
    /\ pc = "parse_response"
    /\ \E raw \in SeqsUpTo(RawResponseFields, MaxFields - Len(api.request)) :
         IF SchemaSyntaxOk(raw)
         THEN /\ api' = [api EXCEPT !.response = raw]
              /\ pc' = "parse_error_ty"
              /\ errors' = errors
         ELSE /\ pc' = "error"
              /\ errors' = <<[msg |-> "invalid response field", field |-> 0]>>
              /\ api' = api
    /\ UNCHANGED <<output, call, args, httpMsg, result>>

\* `match input.parse::<ErrorType>() { Ok(err) => err.ty, Err(_) => Void }`
ResolveVoidAlways(clause) == Void
ResolveErrorType(clause) == IF clause # "" THEN clause ELSE Void

ParseErrorType ==
    /\ pc = "parse_error_ty"
    /\ \E clause \in ErrorClauses :
         /\ api' = [api EXCEPT !.error_ty = ResolveErrorType(clause)]
         /\ args' = [clause |-> clause]
    /\ pc' = "validate"
    /\ UNCHANGED <<errors, output, call, httpMsg, result>>

\* The condition of the `if` at the end of Api::parse.
GetBodyRule(a) ==
    /\ a.metadata.method = "GET"
    /\ (has_body_fields(a.request) \/ newtype_body_field(a.request) # {})

RECURSIVE SetToSeq(_)
\* The elements of a set of field indices in declaration order.
SetToSeq(S) ==
    IF S = {} THEN <<>>
    ELSE LET m == CHOOSE i \in S : \A j \in S : i <= j
         IN  <<m>> \o SetToSeq(S \ {m})

add_error(combined_error, field) ==
    Append(combined_error, [msg |-> "GET endpoints can't have body fields", field |-> field])

RECURSIVE AddErrors(_, _)
AddErrors(combined_error, fieldSeq) ==
    IF fieldSeq = <<>> THEN combined_error
    ELSE AddErrors(add_error(combined_error, Head(fieldSeq)), Tail(fieldSeq))

FirstErrorOnly(a) ==
    LET all == SetToSeq(body_fields(a.request)) \o SetToSeq(newtype_body_field(a.request))
    IN  AddErrors(<<>>, <<Head(all)>>)
\* The body of that `if`: one diagnostic per body field, then one for the
\* newtype body field.
CombinedError(a) ==
    AddErrors(AddErrors(<<>>, SetToSeq(body_fields(a.request))),
              SetToSeq(newtype_body_field(a.request)))

ValidateNoReturn ==
    /\ pc = "validate"
    /\ errors' = IF GetBodyRule(api) THEN CombinedError(api) ELSE errors
    /\ pc' = "expand"
    /\ UNCHANGED <<api, output, call, args, httpMsg, result>>
\* The end of Api::parse: `return Err(combined_error.unwrap())` or `Ok(Self { .. })`.
Validate ==
    /\ pc = "validate"
    /\ IF GetBodyRule(api)
       THEN /\ errors' = CombinedError(api)
            /\ pc' = "error"
       ELSE /\ errors' = errors
            /\ pc' = "expand"
    /\ UNCHANGED <<api, output, call, args, httpMsg, result>>

(***************************************************************************)
(* expand_all: the items of the generated token stream                     *)
(***************************************************************************)
Item(item, ty, error) == [item |-> item, ty |-> ty, error |-> error]

MarkerImplsAlways(a) ==
    { Item("impl OutgoingNonAuthRequest", "Request", ""),
      Item("impl IncomingNonAuthRequest", "#incoming_request_type", "") }
non_auth_endpoint_impls(a) ==
    IF a.metadata.authentication # "None" THEN {}
    ELSE { Item("impl OutgoingNonAuthRequest", "Request", ""),
           Item("impl IncomingNonAuthRequest", "#incoming_request_type", "") }

Artifacts(a) ==
    { Item("struct", "Request", ""),
      Item("impl TryFrom<http::Request<Vec<u8>>>", "#incoming_request_type", ""),
      Item("struct", "Response", ""),
      Item("impl TryFrom<Response>", "http::Response<Vec<u8>>", ""),
      Item("impl TryFrom<http::Response<Vec<u8>>>", "Response", a.error_ty),
      Item("const", "METADATA", ""),
      Item("impl OutgoingRequest", "Request", a.error_ty),
      Item("impl IncomingRequest", "#incoming_request_type", a.error_ty) }
        \cup non_auth_endpoint_impls(a)

ExpandAll ==
    /\ pc = "expand"
    /\ output' = Artifacts(api)
    /\ pc' = "done"
    /\ UNCHANGED <<api, errors, call, args, httpMsg, result>>

InitGen ==
    /\ pc = "parse_metadata"
    /\ api = EmptyApi
    /\ errors = <<>>
    /\ output = {}
    /\ call = "none"
    /\ args = [clause |-> ""]
    /\ httpMsg = <<>>
    /\ result = Return(<<>>)

NextGen ==
    \/ ParseMetadata
    \/ ParseRequest
    \/ ParseResponse
    \/ ParseErrorType
    \/ Validate
    \/ ExpandAll

SpecGen == InitGen /\ [][NextGen]_vars

(***************************************************************************)
(* Properties of the macro (checked under SpecGen)                         *)
(***************************************************************************)
GetMessage == "GET endpoints can't have body fields"
Offending(a) == body_fields(a.request) \cup Indices(a.request, "NewtypeBody")
\* Api::parse has run to its end (the error type is resolved before the rule).
ParseEnded == pc \in {"expand", "done", "error"} /\ api.error_ty # ""
MarkerItems == {x \in output : x.item \in {"impl OutgoingNonAuthRequest",
                                            "impl IncomingNonAuthRequest"}}

\* C1: a GET endpoint with Body / NewtypeBody request fields never leaves
\* Api::parse as Ok, and the combined error holds exactly one "GET endpoints
\* can't have body fields" diagnostic per offending field; any other endpoint
\* gets no error from this rule.
C1_GetBodyDiagnostics ==
    ParseEnded =>
        IF api.metadata.method = "GET" /\ Offending(api) # {}
        THEN /\ pc = "error"
             /\ Len(errors) = Cardinality(Offending(api))
             /\ \A i \in Offending(api) :
                    Cardinality({k \in 1..Len(errors) :
                                    errors[k] = [msg |-> GetMessage, field |-> i]}) = 1
        ELSE /\ pc # "error"
             /\ errors = <<>>

C1_Witness ==
    /\ pc = "error"
    /\ api.metadata.method = "GET"
    /\ Cardinality(body_fields(api.request)) = 2
    /\ Len(errors) = 2
    /\ errors[1].msg = GetMessage /\ errors[2].msg = GetMessage
    /\ errors[1].field # errors[2].field

InvariantA(fields) ==
    /\ Cardinality(Indices(fields, "NewtypeBody")) <= 1
    /\ ~(Indices(fields, "NewtypeBody") # {} /\ Indices(fields, "Body") # {})
InvariantB(fields) ==
    /\ Cardinality(Indices(fields, "QueryMap")) <= 1
    /\ ~(Indices(fields, "QueryMap") # {} /\ Indices(fields, "Query") # {})
InvariantC(a) == a.metadata.method = "GET" => Offending(a) = {}
InvariantD(fields) ==
    \A i, j \in Indices(fields, "Header") : fields[i].header = fields[j].header => i = j
InvariantE(a) ==
    Cardinality(Indices(a.request, "Path")) >= 2 => a.metadata.path = "declaration"

\* C6: every Api value that reaches expand_all satisfies (a) one newtype body,
\* exclusive with body fields; (b) one query map, exclusive with query
\* fields; (c) no body on GET; (d) unique header names; (e) path fields
\* declared in the order of the template's placeholders.
C6_InvariantSet ==
    pc \in {"expand", "done"} =>
        /\ InvariantA(api.request) /\ InvariantA(api.response)
        /\ InvariantB(api.request)
        /\ InvariantC(api)
        /\ InvariantD(api.request) /\ InvariantD(api.response)
        /\ InvariantE(api)

\* C7 as stated: the marker is emitted iff the authentication scheme is None,
\* and then on both the request type and the response type.
C7_MarkerOnRequestAndResponse ==
    pc = "done" =>
        /\ (MarkerItems # {}) <=> (api.metadata.authentication = "None")
        /\ api.metadata.authentication = "None" =>
               /\ \E x \in MarkerItems : x.ty = "Request"
               /\ \E x \in MarkerItems : x.ty = "Response"

\* C7 (amended): the marker impls are emitted iff the authentication scheme
\* is None, and then on the outgoing request type (Request) and on the
\* incoming request type; no marker is ever emitted on the response type.
C7_MarkerOnRequestTypes ==
    pc = "done" =>
        /\ (MarkerItems # {}) <=> (api.metadata.authentication = "None")
        /\ api.metadata.authentication = "None" =>
               MarkerItems = { Item("impl OutgoingNonAuthRequest", "Request", ""),
                               Item("impl IncomingNonAuthRequest", "#incoming_request_type", "") }
        /\ \A x \in MarkerItems : x.ty # "Response"

C7_Witness ==
    /\ pc = "done"
    /\ api.metadata.authentication = "None"
    /\ Cardinality(MarkerItems) = 2

\* C8: the resolved error type is the declared type when the `error: TYPE`
\* clause is present and ruma_api::error::Void when it is absent, and it is the
\* EndpointError of both request traits and the parameter of
\* FromHttpResponseError in the incoming-response decoder.
C8_ErrorTypeResolved ==
    /\ pc \in {"validate", "expand", "done"} =>
           api.error_ty = (IF args.clause = "" THEN "ruma_api::error::Void" ELSE args.clause)
    /\ pc = "done" =>
           \A x \in output :
               x.item \in {"impl OutgoingRequest", "impl IncomingRequest",
                           "impl TryFrom<http::Response<Vec<u8>>>"}
                   => x.error = (IF args.clause = "" THEN "ruma_api::error::Void"
                                 ELSE args.clause)

C8_Witness ==
    /\ pc = "done"
    /\ args.clause = "MyError"
    /\ Item("impl OutgoingRequest", "Request", "MyError") \in output
    /\ Item("impl TryFrom<http::Response<Vec<u8>>>", "Response", "MyError") \in output

PipelineOrder ==
    { <<"parse_metadata", "parse_request">>, <<"parse_request", "parse_response">>,
      <<"parse_response", "parse_error_ty">>, <<"parse_error_ty", "validate">>,
      <<"validate", "expand">>, <<"expand", "done">>,
      <<"parse_metadata", "error">>, <<"parse_request", "error">>,
      <<"parse_response", "error">>, <<"validate", "error">> }

CoreItems ==
    { "struct", "impl TryFrom<http::Request<Vec<u8>>>", "impl TryFrom<Response>",
      "impl TryFrom<http::Response<Vec<u8>>>", "const", "impl OutgoingRequest",
      "impl IncomingRequest" }

AllOrNothing ==
    /\ output # {} <=> pc = "done"
    /\ output # {} =>
           /\ errors = <<>>
           /\ \A it \in CoreItems : \E x \in output : x.item = it
           /\ Cardinality({x \in output : x.item = "struct"}) = 2
    /\ pc = "error" => errors # <<>> /\ output = {}

\* C9: the steps run in the order metadata, request, response, error type,
\* validation, generation; output is emitted only by expand_all, only after
\* Api::parse returned Ok, and then all artifacts together; a failed parse or
\* validation emits nothing.
C9_Pipeline ==
    /\ [](AllOrNothing)
    /\ [][ /\ pc' # pc => <<pc, pc'>> \in PipelineOrder
           /\ output' # output => pc = "expand" /\ errors = <<>> /\ pc' = "done" ]_vars

C9_Witness ==
    /\ pc = "done"
    /\ output # {}
    /\ errors = <<>>
    /\ api.error_ty # ""

(***************************************************************************)
(* Text                                                                    *)
(***************************************************************************)
RECURSIVE Flatten(_)
Flatten(ss) == IF ss = <<>> THEN <<>> ELSE Head(ss) \o Flatten(Tail(ss))

RECURSIVE Join(_, _)
\* [a, b, c].join(sep)
Join(ss, sep) ==
    IF ss = <<>> THEN <<>>
    ELSE IF Len(ss) = 1 THEN ss[1]
    ELSE ss[1] \o sep \o Join(Tail(ss), sep)

\* The least index >= from at which s holds c, or 0.
IndexFrom(s, c, from) ==
    IF \E i \in from..Len(s) : s[i] = c
    THEN CHOOSE i \in from..Len(s) : s[i] = c /\ \A j \in from..(i - 1) : s[j] # c
    ELSE 0

RECURSIVE Split(_, _)
\* str::split(sep): "" splits into [""].
Split(s, sep) ==
    LET i == IndexFrom(s, sep, 1)
    IN  IF i = 0 THEN <<s>>
        ELSE <<SubSeq(s, 1, i - 1)>> \o Split(SubSeq(s, i + 1, Len(s)), sep)

\* percent_encoding: the escapes of the bytes the model uses.
Escapes == { <<"&", <<"%", "2", "6">> >>, <<"=", <<"%", "3", "D">> >>,
             <<"/", <<"%", "2", "F">> >>, <<"%", <<"%", "2", "5">> >> }

PercentEncodeChar(c) ==
    IF \E e \in Escapes : e[1] = c
    THEN (CHOOSE e \in Escapes : e[1] = c)[2]
    ELSE <<c>>

RECURSIVE PercentEncode(_)
PercentEncode(s) ==
    IF s = <<>> THEN <<>> ELSE PercentEncodeChar(Head(s)) \o PercentEncode(Tail(s))

Fail == [ok |-> FALSE, val |-> <<>>]
Ok(v) == [ok |-> TRUE, val |-> v]

RECURSIVE PercentDecode(_)
PercentDecode(s) ==
    IF s = <<>> THEN Ok(<<>>)
    ELSE IF Head(s) = "%"
    THEN IF Len(s) >= 3 /\ \E e \in Escapes : e[2] = SubSeq(s, 1, 3)
         THEN LET rest == PercentDecode(SubSeq(s, 4, Len(s)))
              IN  IF rest.ok
                  THEN Ok(<<(CHOOSE e \in Escapes : e[2] = SubSeq(s, 1, 3))[1]>> \o rest.val)
                  ELSE Fail
         ELSE Fail
    ELSE LET rest == PercentDecode(Tail(s))
         IN  IF rest.ok THEN Ok(<<Head(s)>> \o rest.val) ELSE Fail

\* http::header::HeaderValue::from_str accepts visible ASCII only.
ValidHeaderValue(s) == \A i \in 1..Len(s) : s[i] # "\n"

(***************************************************************************)
(* serde_json, for the bodies the model uses: an object of one-character   *)
(* keys and scalar values, written {k:v,k:v}, or a bare scalar.            *)
(***************************************************************************)
FieldName(i) == <<"a", "b", "c", "d">>[i]
JsonScalars == { <<"n1", "1">>, <<"n2", "2">> }
ScalarText(v) == (CHOOSE j \in JsonScalars : j[1] = v)[2]
IsScalarText(c) == \E j \in JsonScalars : j[2] = c
ScalarOfText(c) == (CHOOSE j \in JsonScalars : j[2] = c)[1]
KeyChars == {"a", "b", "c", "d"}

\* serde_json::from_slice into a map: the members of a well-formed object.
ParseObject(text) ==
    IF Len(text) < 2 \/ text[1] # "{" \/ text[Len(text)] # "}" THEN Fail
    ELSE LET inner == SubSeq(text, 2, Len(text) - 1)
             n == (Len(inner) + 1) \div 4
         IN  IF inner = <<>> THEN Ok(<<>>)
             ELSE IF /\ Len(inner) % 4 = 3
                     /\ \A j \in 0..(n - 1) :
                          /\ inner[4 * j + 1] \in KeyChars
                          /\ inner[4 * j + 2] = ":"
                          /\ IsScalarText(inner[4 * j + 3])
                          /\ (j < n - 1 => inner[4 * j + 4] = ",")
                  THEN Ok([j \in 1..n |-> <<inner[4 * j - 3], ScalarOfText(inner[4 * j - 1])>>])
                  ELSE Fail

BrokenObject == <<"}">>
EmptyObject == <<"{", "}">>

JsonScalar(v) == [tag |-> "scalar", scalar |-> v, members |-> <<>>]
JsonObject(ms) == [tag |-> "object", scalar |-> "", members |-> ms]

\* serde_json::to_vec of a JSON value.
ToJson(j) ==
    IF j.tag = "scalar" THEN <<ScalarText(j.scalar)>>
    ELSE <<"{">>
           \o Join([i \in 1..Len(j.members) |->
                       <<j.members[i][1], ":", ScalarText(j.members[i][2])>>], <<",">>)
           \o <<"}">>

\* serde_json::from_slice into a JSON value.
FromJson(text) ==
    IF Len(text) = 1 /\ IsScalarText(text[1]) THEN Ok(JsonScalar(ScalarOfText(text[1])))
    ELSE LET o == ParseObject(text)
         IN  IF o.ok THEN Ok(JsonObject(o.val)) ELSE Fail

(***************************************************************************)
(* Values of the generated Request and Response types                      *)
(***************************************************************************)
None == <<>>
Some(x) == <<x>>

ValuesOf(f) ==
    CASE f.kind = "Path" -> { <<"a">>, <<"b">> }
      [] f.kind = "Query" -> { <<"a">>, <<"&">> }
      [] f.kind = "QueryMap" -> { <<>>, << << <<"k">>, <<"a", "=">> >> >> }
      [] f.kind = "Header" -> { <<"a">>, <<"b">>, <<"\n">> }
      [] f.kind = "Body" -> IF f.optional THEN {None, Some("n1")} ELSE {"n1", "n2"}
      [] f.kind = "NewtypeBody" -> {JsonScalar("n1"), JsonObject(<<>>)}

RECURSIVE ValuesOfSchema(_)
\* Every value of the struct with the given fields.
ValuesOfSchema(fields) ==
    IF fields = <<>> THEN {<<>>}
    ELSE LET n == Len(fields)
         IN  {Append(v, x) : v \in ValuesOfSchema(SubSeq(fields, 1, n - 1)),
                             x \in ValuesOf(fields[n])}

\* The members serde writes for the body struct: a field that is None is skipped.
BodyMembers(fields, v) ==
    LET bs == SetToSeq(body_fields(fields))
        present == SelectSeq(bs, LAMBDA i : ~(fields[i].optional /\ v[i] = None))
    IN  [j \in 1..Len(present) |->
            <<FieldName(present[j]),
              IF fields[present[j]].optional THEN v[present[j]][1] ELSE v[present[j]]>>]

\* The value of body field i read from the members of a parsed object.
BodyFieldFrom(fields, i, members) ==
    LET hits == SelectSeq(members, LAMBDA m : m[1] = FieldName(i))
    IN  IF Len(hits) > 1 THEN Fail
        ELSE IF Len(hits) = 0 THEN (IF fields[i].optional THEN Ok(None) ELSE Fail)
        ELSE IF fields[i].optional THEN Ok(Some(hits[1][2])) ELSE Ok(hits[1][2])

\* Deserialization of the wire JSON into the fields the body carries.
DeserializeBody(fields, json) ==
    IF newtype_body_field(fields) # {} THEN FromJson(json)
    ELSE ParseObject(json)

\* The value of field i of kind Body / NewtypeBody after `body` was deserialized.
BodyPart(fields, i, body) ==
    IF ~body.ok THEN Fail
    ELSE IF fields[i].kind = "NewtypeBody" THEN Ok(body.val)
    ELSE BodyFieldFrom(fields, i, body.val)

(***************************************************************************)
(* try_into_http_request (OutgoingRequest)                                 *)
(***************************************************************************)
TrimAllSlashes(base_url) ==
    LET keep == {n \in 0..Len(base_url) : \A i \in (n + 1)..Len(base_url) : base_url[i] = "/"}
    IN  SubSeq(base_url, 1, CHOOSE n \in keep : \A m \in keep : n <= m)
\* `match base_url.as_bytes().last() { Some(b'/') => &base_url[..len - 1], _ => base_url }`
TrimBaseUrl(base_url) ==
    IF Len(base_url) > 0 /\ base_url[Len(base_url)] = "/"
    THEN SubSeq(base_url, 1, Len(base_url) - 1)
    ELSE base_url

Reverse(s) == [i \in 1..Len(s) |-> s[Len(s) + 1 - i]]

\* The request's Path fields in the order the path template names them.
PathFieldSeq(a) ==
    IF a.metadata.path = "reversed"
    THEN Reverse(SetToSeq(Indices(a.request, "Path")))
    ELSE SetToSeq(Indices(a.request, "Path"))

LiteralPath == <<"/", "m">>

request_path_string(a, v) ==
    LET ps == PathFieldSeq(a)
    IN  LiteralPath \o Flatten([j \in 1..Len(ps) |-> <<"/">> \o v[ps[j]]])

\* ruma_serde::urlencoded::to_string
UrlEncodePairs(pairs) ==
    Join([j \in 1..Len(pairs) |->
             PercentEncode(pairs[j][1]) \o <<"=">> \o PercentEncode(pairs[j][2])], <<"&">>)

request_query_string(a, v) ==
    LET qs == SetToSeq(Indices(a.request, "Query"))
    IN  IF query_map_field(a.request) # {}
        THEN <<"?">> \o UrlEncodePairs(v[CHOOSE i \in query_map_field(a.request) : TRUE])
        ELSE IF has_query_fields(a.request)
        THEN <<"?">> \o UrlEncodePairs([j \in 1..Len(qs) |-> << <<FieldName(qs[j])>>, v[qs[j]] >>])
        ELSE <<>>

request_body(a, v) ==
    IF newtype_body_field(a.request) # {}
    THEN ToJson(v[CHOOSE i \in newtype_body_field(a.request) : TRUE])
    ELSE IF has_body_fields(a.request)
    THEN ToJson(JsonObject(BodyMembers(a.request, v)))
    ELSE <<>>

\* Request::append_header_kvs: one header per Header field, in declaration order.
append_header_kvs(a, v) ==
    LET hs == SetToSeq(Indices(a.request, "Header"))
    IN  IF \E j \in 1..Len(hs) : ~ValidHeaderValue(v[hs[j]])
        THEN Raise("InvalidHeaderValue")
        ELSE Return([j \in 1..Len(hs) |-> <<a.request[hs[j]].header, v[hs[j]]>>])

Bearer == <<"B", "e", "a", "r", "e", "r", " ">>

AuthorizationUnchecked(a, access_token) ==
    IF a.metadata.authentication # "AccessToken" \/ access_token = None THEN Return(<<>>)
    ELSE Return(<< <<"authorization", Bearer \o access_token[1]>> >>)
\* The statement expand_all adds to header_kvs for AccessToken endpoints.
AuthorizationHeader(a, access_token) ==
    IF a.metadata.authentication # "AccessToken" THEN Return(<<>>)
    ELSE IF access_token = None THEN Raise("NeedsAuthentication")
    ELSE IF ~ValidHeaderValue(Bearer \o access_token[1]) THEN Raise("InvalidHeaderValue")
    ELSE Return(<< <<"authorization", Bearer \o access_token[1]>> >>)

FormatUri(a, v, base_url) ==
    TrimBaseUrl(base_url) \o request_path_string(a, v) \o request_query_string(a, v)

try_into_http_request(a, v, base_url, access_token) ==
    LET kvs == append_header_kvs(a, v)
        auth == AuthorizationHeader(a, access_token)
    IN  IF ~kvs.ok THEN kvs
        ELSE IF ~auth.ok THEN auth
        ELSE Return([method |-> a.metadata.method,
                     uri |-> FormatUri(a, v, base_url),
                     headers |-> kvs.val \o auth.val,
                     body |-> request_body(a, v)])

(***************************************************************************)
(* TryFrom<http::Request<Vec<u8>>> (IncomingRequest)                       *)
(***************************************************************************)
\* http::Uri: the path and the query of a URI in origin or absolute form.
UriPathAndQuery(uri) ==
    IF uri # <<>> /\ uri[1] = "/" THEN uri
    ELSE LET colon == IndexFrom(uri, ":", 1)
             slash == IndexFrom(uri, "/", colon + 3)
         IN  IF colon = 0 \/ slash = 0 THEN <<"/">> ELSE SubSeq(uri, slash, Len(uri))

UriPath(uri) ==
    LET pq == UriPathAndQuery(uri)
        q == IndexFrom(pq, "?", 1)
    IN  IF q = 0 THEN pq ELSE SubSeq(pq, 1, q - 1)

\* uri.query().unwrap_or("")
UriQuery(uri) ==
    LET pq == UriPathAndQuery(uri)
        q == IndexFrom(pq, "?", 1)
    IN  IF q = 0 THEN <<>> ELSE SubSeq(pq, q + 1, Len(pq))

\* ruma_serde::urlencoded::from_str into key/value pairs
UrlDecodePairs(query) ==
    IF query = <<>> THEN Ok(<<>>)
    ELSE LET pieces == Split(query, "&")
             pair(piece) ==
                 LET e == IndexFrom(piece, "=", 1)
                 IN  IF e = 0 THEN << PercentDecode(piece), Ok(<<>>) >>
                     ELSE << PercentDecode(SubSeq(piece, 1, e - 1)),
                             PercentDecode(SubSeq(piece, e + 1, Len(piece))) >>
         IN  IF \A j \in 1..Len(pieces) : pair(pieces[j])[1].ok /\ pair(pieces[j])[2].ok
             THEN Ok([j \in 1..Len(pieces) |-> <<pair(pieces[j])[1].val, pair(pieces[j])[2].val>>])
             ELSE Fail

\* `request.uri().path()[1..].split('/')`
extract_request_path(req) == Split(Tail(UriPath(req.uri)), "/")

HeaderLookup(headers, name) ==
    LET hits == SelectSeq(headers, LAMBDA h : h[1] = name)
    IN  IF hits = <<>> THEN Fail ELSE Ok(hits[1][2])

\* The body bytes handed to serde_json::from_slice (request and response alike).
BodyNeverSubstituted(body) == body
JsonOrEmptyObject(body) == IF body = <<>> THEN EmptyObject ELSE body

\* The value the decoder gives request field i.
RequestFieldFrom(a, req, i) ==
    LET f == a.request[i]
        ps == PathFieldSeq(a)
        segs == extract_request_path(req)
        pos == CHOOSE j \in 1..Len(ps) : ps[j] = i
        pairs == UrlDecodePairs(UriQuery(req.uri))
        hits == SelectSeq(pairs.val, LAMBDA kv : kv[1] = <<FieldName(i)>>)
    IN  CASE f.kind = "Path" ->
               IF pos + 1 <= Len(segs) THEN Ok(segs[pos + 1]) ELSE Fail
          [] f.kind = "QueryMap" -> pairs
          [] f.kind = "Query" ->
               IF pairs.ok /\ Len(hits) = 1 THEN Ok(hits[1][2]) ELSE Fail
          [] f.kind = "Header" -> HeaderLookup(req.headers, f.header)
          [] OTHER ->
               BodyPart(a.request, i, DeserializeBody(a.request, JsonOrEmptyObject(req.body)))

RequestTryFrom(a, req) ==
    LET part(i) == RequestFieldFrom(a, req, i)
    IN  IF \A i \in 1..Len(a.request) : part(i).ok
        THEN Return([i \in 1..Len(a.request) |-> part(i).val])
        ELSE Raise("Deserialization")


(***************************************************************************)
(* TryFrom<Response> for http::Response<Vec<u8>> (outgoing response)       *)
(***************************************************************************)
ContentType ==
    <<"content-type",
      <<"a", "p", "p", "l", "i", "c", "a", "t", "i", "o", "n", "/", "j", "s", "o", "n">> >>

\* http::HeaderMap::insert: the value replaces one already stored under the name.
HeaderInsert(headers, name, value) ==
    Append(SelectSeq(headers, LAMBDA h : h[1] # name), <<name, value>>)

RECURSIVE ApplyHeaderFields(_, _, _, _)
\* Response::apply_header_fields, over the Header fields hs in declaration order.
ApplyHeaderFields(fields, v, hs, headers) ==
    IF hs = <<>> THEN Return(headers)
    ELSE IF ~ValidHeaderValue(v[Head(hs)]) THEN Raise("InvalidHeaderValue")
    ELSE ApplyHeaderFields(fields, v, Tail(hs),
                           HeaderInsert(headers, fields[Head(hs)].header, v[Head(hs)]))

\* Response::to_body
to_body(a, v) ==
    IF newtype_body_field(a.response) # {}
    THEN ToJson(v[CHOOSE i \in newtype_body_field(a.response) : TRUE])
    ELSE ToJson(JsonObject(BodyMembers(a.response, v)))

DefaultStatus == 200

ResponseTryInto(a, v) ==
    LET headers == ApplyHeaderFields(a.response, v,
                                     SetToSeq(Indices(a.response, "Header")), <<ContentType>>)
    IN  IF ~headers.ok THEN headers
        ELSE Return([status |-> DefaultStatus, headers |-> headers.val, body |-> to_body(a, v)])

(***************************************************************************)
(* TryFrom<http::Response<Vec<u8>>> for Response (incoming response)       *)
(***************************************************************************)
ErrorStatus == 400

SuccessUpTo400(status) == status <= ErrorStatus
\* `if response.status().as_u16() < 400`
IsSuccessStatus(status) == status < ErrorStatus

\* <ErrorType as EndpointError>::try_from_response: Void decodes nothing; a
\* declared error type decodes a JSON object.
try_from_response(error_ty, resp) ==
    IF error_ty = Void THEN Fail ELSE ParseObject(resp.body)

Outcome(k, v, r) == [kind |-> k, val |-> v, status |-> r.status, body |-> r.body]
NoResponse == [status |-> 0, headers |-> <<>>, body |-> <<>>]

\* http::HeaderMap::remove: every value stored under the name leaves the map.
HeaderRemove(headers, name) == SelectSeq(headers, LAMBDA h : h[1] # name)

RECURSIVE HeadersLeft(_, _, _)
\* The header map when the decoder comes to response field i: each Header
\* field declared before it has taken its header out of the map.
HeadersLeft(fields, headers, i) ==
    IF i <= 1 THEN headers
    ELSE LET before == HeadersLeft(fields, headers, i - 1)
         IN  IF fields[i - 1].kind = "Header"
             THEN HeaderRemove(before, fields[i - 1].header)
             ELSE before

\* The value the decoder gives response field i.
ResponseFieldFrom(a, resp, i) ==
    IF a.response[i].kind = "Header"
    THEN HeaderLookup(HeadersLeft(a.response, resp.headers, i), a.response[i].header)
    ELSE BodyPart(a.response, i, DeserializeBody(a.response, JsonOrEmptyObject(resp.body)))

ResponseTryFrom(a, resp) ==
    LET part(i) == ResponseFieldFrom(a, resp, i)
        err == try_from_response(a.error_ty, resp)
    IN  IF IsSuccessStatus(resp.status)
        THEN IF \A i \in 1..Len(a.response) : part(i).ok
             THEN Outcome("Ok", [i \in 1..Len(a.response) |-> part(i).val], NoResponse)
             ELSE Outcome("Deserialization", <<>>, NoResponse)
        ELSE IF err.ok
             THEN Outcome("Known", err.val, NoResponse)
             ELSE Outcome("Unknown", <<>>, resp)

(***************************************************************************)
(* Calls of the generated routines                                         *)
(***************************************************************************)
\* What Api::parse lets through to expand_all.
Expandable(a) ==
    /\ SchemaSyntaxOk(a.request)
    /\ SchemaSyntaxOk(a.response)
    /\ ~GetBodyRule(a)

\* The endpoints whose request routines are called: these read the metadata and
\* the request schema only.
RequestEndpoints ==
    {a \in [metadata : [method : Methods, authentication : AuthSchemes, path : PathOrders],
            request : SeqsUpTo(FieldsOfKinds(RequestKinds), MaxFields),
            response : {<<>>},
            error_ty : {Void}] :
        /\ Expandable(a)
        /\ (a.metadata.path = "reversed" => Cardinality(Indices(a.request, "Path")) >= 2)}

\* The endpoints whose response routines are called: these read the response
\* schema and the error type only.
ResponseEndpoints ==
    {a \in [metadata : [method : {"POST"}, authentication : {"None"}, path : {"declaration"}],
            request : {<<>>},
            response : SeqsUpTo(FieldsOfKinds(ResponseKinds), MaxFields),
            error_ty : {Void, "MyError"}] :
        Expandable(a)}

Host == <<"h", "t", "t", "p", ":", "/", "/", "h">>
BaseUrls == { <<>>, Host, Host \o <<"/">>, Host \o <<"/", "/">>, Host \o <<"/", "p">> }
Token == <<"a", "b", "c", "1", "2", "3">>
AccessTokens == { None, Some(Token), Some(<<"\n">>) }
RawBodies == { <<>>, EmptyObject, BrokenObject, <<"{", "a", ":", "1", "}">>, <<"1">> }
Statuses == {200, 399, 400, 404}

Args(v, b, t, o) == [value |-> v, base_url |-> b, access_token |-> t, origin |-> o]

\* A client encodes a request.
EncodeRequest ==
    /\ call = "none"
    /\ \E a \in RequestEndpoints :
       \E v \in ValuesOfSchema(a.request), b \in BaseUrls, t \in AccessTokens :
         LET r == try_into_http_request(a, v, b, t)
         IN  /\ api' = a
             /\ args' = Args(v, b, t, "encoder")
             /\ result' = r
             /\ httpMsg' = r.val
    /\ call' = "try_into_http_request"
    /\ UNCHANGED <<pc, errors, output>>

\* A request arrives from the network: well-formed for the endpoint but for
\* its body, which is arbitrary.
ReceiveRequest ==
    /\ call = "none"
    /\ \E a \in RequestEndpoints :
       \E v \in ValuesOfSchema(a.request), body \in RawBodies :
         LET r == try_into_http_request(a, v, Host, Some(Token))
         IN  /\ r.ok
             /\ api' = a
             /\ args' = Args(v, Host, Some(Token), "network")
             /\ result' = Return([r.val EXCEPT !.body = body])
             /\ httpMsg' = [r.val EXCEPT !.body = body]
    /\ call' = "receive_request"
    /\ UNCHANGED <<pc, errors, output>>

\* A server decodes the request in flight.
DecodeRequest ==
    /\ call \in {"try_into_http_request", "receive_request"}
    /\ result.ok
    /\ result' = RequestTryFrom(api, httpMsg)
    /\ call' = "request_try_from"
    /\ UNCHANGED <<pc, api, errors, output, args, httpMsg>>

\* A server encodes a response.
EncodeResponse ==
    /\ call = "none"
    /\ \E a \in ResponseEndpoints :
       \E v \in ValuesOfSchema(a.response) :
         LET r == ResponseTryInto(a, v)
         IN  /\ api' = a
             /\ args' = Args(v, <<>>, None, "encoder")
             /\ result' = r
             /\ httpMsg' = r.val
    /\ call' = "response_try_into"
    /\ UNCHANGED <<pc, errors, output>>

\* A response arrives from the network: any status, any body, with the
\* headers the encoder sets or with the content type alone.
ReceiveResponse ==
    /\ call = "none"
    /\ \E a \in ResponseEndpoints :
       \E v \in ValuesOfSchema(a.response), st \in Statuses, body \in RawBodies :
         LET r == ResponseTryInto(a, v)
         IN  /\ r.ok
             /\ \E hs \in {r.val.headers, <<ContentType>>} :
                  LET msg == [status |-> st, headers |-> hs, body |-> body]
                  IN  /\ result' = Return(msg)
                      /\ httpMsg' = msg
             /\ api' = a
             /\ args' = Args(v, <<>>, None, "network")
    /\ call' = "receive_response"
    /\ UNCHANGED <<pc, errors, output>>

\* A client decodes the response in flight.
DecodeResponse ==
    /\ call \in {"response_try_into", "receive_response"}
    /\ result.ok
    /\ result' = ResponseTryFrom(api, httpMsg)
    /\ call' = "response_try_from"
    /\ UNCHANGED <<pc, api, errors, output, args, httpMsg>>

InitCodec ==
    /\ pc = "runtime"
    /\ api = EmptyApi
    /\ errors = <<>>
    /\ output = {}
    /\ call = "none"
    /\ args = Args(<<>>, <<>>, None, "")
    /\ httpMsg = <<>>
    /\ result = Return(<<>>)

NextCodec ==
    \/ EncodeRequest
    \/ ReceiveRequest
    \/ DecodeRequest
    \/ EncodeResponse
    \/ ReceiveResponse
    \/ DecodeResponse

SpecCodec == InitCodec /\ [][NextCodec]_vars
(***************************************************************************)
(* Properties of the generated routines (checked under SpecCodec)          *)
(***************************************************************************)
EndsWithSlash(s) == Len(s) > 0 /\ s[Len(s)] = "/"
HeaderValuesValid(fields, v) ==
    \A i \in Indices(fields, "Header") : \A k \in 1..Len(v[i]) : v[i][k] # "\n"
Carries(headers, name, value) == \E k \in 1..Len(headers) : headers[k] = <<name, value>>
BearerOf(t) == <<"B", "e", "a", "r", "e", "r", " ">> \o t
Encoded == call = "try_into_http_request"

\* C2 as stated: on an AccessToken endpoint the encoder fails with
\* NeedsAuthentication whenever the token is absent, and whenever a token t is
\* supplied the request it produces carries `Authorization: Bearer t`.
C2_NeedsAuthenticationAlways ==
    (Encoded /\ api.metadata.authentication = "AccessToken") =>
        IF args.access_token = <<>>
        THEN ~result.ok /\ result.err = "NeedsAuthentication"
        ELSE result.ok => Carries(result.val.headers, "authorization",
                                  BearerOf(args.access_token[1]))

\* C2 (amended): on an AccessToken endpoint, with the token absent the encoder
\* never produces a request, and the error is NeedsAuthentication unless the
\* value of one of the request's Header fields was rejected first; with a
\* token t supplied the error is never NeedsAuthentication, a request that is
\* produced carries `Authorization: Bearer t`, and none is produced when
\* "Bearer t" is not a valid header value.
C2_BearerOrNeedsAuthentication ==
    (Encoded /\ api.metadata.authentication = "AccessToken") =>
        IF args.access_token = <<>>
        THEN /\ ~result.ok
             /\ HeaderValuesValid(api.request, args.value) => result.err = "NeedsAuthentication"
             /\ ~HeaderValuesValid(api.request, args.value) => result.err = "InvalidHeaderValue"
        ELSE /\ result.err # "NeedsAuthentication"
             /\ result.ok => Carries(result.val.headers, "authorization",
                                     BearerOf(args.access_token[1]))
             /\ (\E k \in 1..Len(args.access_token[1]) : args.access_token[1][k] = "\n")
                    => ~result.ok
             /\ (HeaderValuesValid(api.request, args.value)
                   /\ \A k \in 1..Len(args.access_token[1]) : args.access_token[1][k] # "\n")
                    => result.ok

C2_Witness ==
    /\ Encoded
    /\ api.metadata.authentication = "AccessToken"
    /\ args.access_token = << <<"a", "b", "c", "1", "2", "3">> >>
    /\ result.ok
    /\ Carries(result.val.headers, "authorization",
               <<"B", "e", "a", "r", "e", "r", " ", "a", "b", "c", "1", "2", "3">>)

\* C3: the incoming-response decoder partitions at status 400: below it the
\* outcome is a Response or a deserialization error and the error type's
\* decoder plays no part; from 400 on the outcome is never a Response: it is
\* the known server error carrying the decoded value when the error type's
\* decoder accepts the response, and otherwise the unknown server error with
\* the status and the raw body of the response.
C3_StatusPartition ==
    call = "response_try_from" =>
        IF httpMsg.status < 400
        THEN /\ result.kind \in {"Ok", "Deserialization"}
             /\ result.kind = "Ok" =>
                    \A i \in Indices(api.response, "Header") : result.val[i] = args.value[i]
        ELSE LET decodable == api.error_ty # "ruma_api::error::Void" /\ ParseObject(httpMsg.body).ok
             IN  IF decodable
                 THEN result.kind = "Known" /\ result.val = ParseObject(httpMsg.body).val
                 ELSE /\ result.kind = "Unknown"
                      /\ result.status = httpMsg.status
                      /\ result.body = httpMsg.body

C3_Witness ==
    /\ call = "response_try_from"
    /\ httpMsg.status = 404
    /\ httpMsg.body = <<"}">>
    /\ api.error_ty = "MyError"
    /\ result.kind = "Unknown" /\ result.status = 404 /\ result.body = <<"}">>

\* C4: decoding what the encoder produced gives back the value that was
\* encoded, for requests and for responses.
C4_RoundTrip ==
    /\ (call = "request_try_from" /\ args.origin = "encoder")
           => result.ok /\ result.val = args.value
    /\ (call = "response_try_from" /\ args.origin = "encoder")
           => result.kind = "Ok" /\ result.val = args.value

HasBody(fields) == Indices(fields, "Body") # {} \/ Indices(fields, "NewtypeBody") # {}
AllBodyOptional(fields) ==
    /\ Indices(fields, "Body") # {}
    /\ Indices(fields, "NewtypeBody") = {}
    /\ \A i \in Indices(fields, "Body") : fields[i].optional
SuccessBranch == call = "response_try_from" /\ httpMsg.status < 400
Schema == IF call = "request_try_from" THEN api.request ELSE api.response
Decoded == IF call = "request_try_from" THEN result.ok ELSE result.kind = "Ok"
\* The parts of the message in flight outside its body (path, query, headers)
\* are ones the decoder reads.
RestDecodes ==
    \A i \in 1..Len(Schema) :
        Schema[i].kind \notin {"Body", "NewtypeBody"} =>
            IF call = "request_try_from"
            THEN RequestFieldFrom(api, httpMsg, i).ok
            ELSE ResponseFieldFrom(api, httpMsg, i).ok

\* C5: in the incoming-request decoder and in the success branch of the
\* incoming-response decoder, for a schema with Body or NewtypeBody fields, an
\* empty wire body is deserialized as the text {} and a non-empty body as it
\* is; so a message with an empty body, whose other parts the decoder reads,
\* decodes, when every body field is optional, to the value whose body fields
\* are all unset, and fails when one is required.
C5_EmptyBodyIsEmptyObject ==
    ((call = "request_try_from" \/ SuccessBranch) /\ HasBody(Schema)) =>
        /\ httpMsg.body = <<>> =>
               /\ call = "request_try_from" =>
                      result = RequestTryFrom(api, [httpMsg EXCEPT !.body = <<"{", "}">>])
               /\ SuccessBranch =>
                      result = ResponseTryFrom(api, [httpMsg EXCEPT !.body = <<"{", "}">>])
               /\ (AllBodyOptional(Schema) /\ RestDecodes) =>
                      /\ Decoded
                      /\ \A i \in Indices(Schema, "Body") : result.val[i] = <<>>
               /\ (\E i \in Indices(Schema, "Body") : ~Schema[i].optional) => ~Decoded
        /\ httpMsg.body = <<"}">> => ~Decoded
        /\ (httpMsg.body = <<"{", "a", ":", "1", "}">> /\ Decoded) =>
               \A i \in Indices(Schema, "Body") :
                   result.val[i] = IF i # 1 THEN <<>>
                                   ELSE IF Schema[i].optional THEN <<"n1">> ELSE "n1"

C5_Witness ==
    /\ call = "request_try_from"
    /\ args.origin = "network"
    /\ httpMsg.body = <<>>
    /\ Cardinality(Indices(api.request, "Body")) = 2
    /\ AllBodyOptional(api.request)
    /\ result.ok
    /\ \A i \in Indices(api.request, "Body") : result.val[i] = <<>>

\* C10: the URI of the encoded request is the base URL, less its last
\* character when that is a '/', followed by the path string and the query
\* string: of several trailing slashes only one is removed, and a base URL
\* that does not end in '/' (the empty one too) is used as it is.
C10_UriTrimsOneSlash ==
    (Encoded /\ result.ok) =>
        LET b == args.base_url
            rest == request_path_string(api, args.value) \o request_query_string(api, args.value)
        IN  /\ result.val.uri =
                   (IF EndsWithSlash(b) THEN SubSeq(b, 1, Len(b) - 1) ELSE b) \o rest
            /\ Len(result.val.uri) = Len(b) + Len(rest) - (IF EndsWithSlash(b) THEN 1 ELSE 0)
            /\ b = <<"h", "t", "t", "p", ":", "/", "/", "h", "/", "/">> =>
                   SubSeq(result.val.uri, 1, 11)
                       = <<"h", "t", "t", "p", ":", "/", "/", "h", "/", "/", "m">>

C10_Witness ==
    /\ Encoded
    /\ result.ok
    /\ args.base_url = <<"h", "t", "t", "p", ":", "/", "/", "h", "/", "/">>
    /\ SubSeq(result.val.uri, 1, 11) = <<"h", "t", "t", "p", ":", "/", "/", "h", "/", "/", "m">>
====
